---- MODULE Spec2Model ----
(***************************************************************************)
(* Workspace file tracking and change propagation of refact-lsp            *)
(* (src/files_in_workspace.rs): the documents state, the discovery walk,   *)
(* the editor handlers, the folder handlers and the filesystem watcher.    *)
(*                                                                         *)
(* Paths are sequences of component names below the root, so the root is   *)
(* <<>> and /w1/build/generated.rs is <<"w1", "build", "generated.rs">>.   *)
(* A Url is the path behind a "file://" head (a POSIX platform).           *)
(***************************************************************************)
EXTENDS Integers, Sequences, FiniteSets, TLC

\* ------------------------------------------------------------------ bounds
MaxFolders == 2      \* cap on the length of workspace_folders
MaxFiles == 4        \* cap on the length of workspace_files for Create appends

\* ---------------------------------------------------------- the universe
W1 == <<"w1">>
W2 == <<"w2">>
Folders == {W1, W2}

F_a == <<"w1", "a.rs">>
F_gen == <<"w1", "build", "generated.rs">>
F_dot == <<"w1", ".cfg", "h.rs">>
F_bin == <<"w1", "pic.bin">>
F_c == <<"w2", "c.rs">>

AllFiles == {F_a, F_gen, F_dot, F_bin, F_c}
AllDirs == {W1, W2, <<"w1", "build">>, <<"w1", ".cfg">>}

\* the order in which a directory listing or a version-control listing
\* reports its entries
EntryOrder == <<F_a, <<"w1", "build">>, F_gen, <<"w1", ".cfg">>, F_dot, F_bin, F_c>>

\* files the version-control index of /w1 tracks
TrackedFiles == {F_a, F_gen}
\* directories that can carry a version-control marker
VcsDirs == {W1}

\* files whose disk content changes while the program runs
VolatileFiles == {F_a}
DiskTexts == {"d1", "d2"}
NoFile == "<nofile>"

\* what the editor sends
EditorTexts == {"d1", "t1"}
Languages == {"rust"}

\* a path pathbuf_to_url cannot resolve (relative, and no current directory)
RelPath == <<"?rel">>

\* ----------------------------------------------------------- path helpers
parent(path) == SubSeq(path, 1, Len(path) - 1)
file_name(path) == path[Len(path)]
Range(s) == {s[i] : i \in 1..Len(s)}
IsPrefix(d, p) == Len(d) <= Len(p) /\ SubSeq(p, 1, Len(d)) = d

\* names that begin with a dot
starts_with_dot(name) == name \in {".cfg", ".git", ".hg", ".svn"}

BLACKLISTED_DIRS ==
    {"target", "node_modules", "vendor", "build", "dist", "bin", "pkg", "lib",
     "lib64", "obj", "out", "venv", "env", "tmp", "temp", "logs", "coverage",
     "backup"}

RECURSIVE is_this_inside_blacklisted_dir(_)
is_this_inside_blacklisted_dir(path) ==
    IF Len(path) = 0 THEN FALSE
    ELSE LET p == parent(path) IN
         IF Len(p) > 0 /\ (file_name(p) \in BLACKLISTED_DIRS \/ starts_with_dot(file_name(p)))
         THEN TRUE
         ELSE is_this_inside_blacklisted_dir(p)

\* an Option or a Result is a sequence: <<>> is None or Err, <<x>> is Some(x)
\* or Ok(x)
NoneOpt == <<>>
Some(x) == <<x>>
\* the message of a failed read
Err == "<err>"

\* Url::from_file_path of the absolute path; Err for a path that cannot be
\* made absolute
pathbuf_to_url(path) == IF path = RelPath THEN NoneOpt ELSE Some(<<"file://">> \o path)
url_of(path) == pathbuf_to_url(path)[1]
\* Url::to_file_path
get_path(url) == Tail(url)

AllUrls == {url_of(f) : f \in AllFiles}

\* ------------------------------------------------------------------ state
VARIABLES
    workspace_folders,  \* DocumentsState.workspace_folders: Vec<PathBuf>
    workspace_files,    \* DocumentsState.workspace_files: Vec<Url>
    document_map,       \* DocumentsState.document_map: HashMap<Url, Document>
    cache_dirty,        \* DocumentsState.cache_dirty: bool
    fs_watcher,         \* folders the watcher of DocumentsState.fs_watcher watches
    watcher_live,       \* init_watcher installed the watcher that calls file_watcher_thread
    panicked,           \* an unwrap() failed
    ast_module,         \* GlobalContext.ast_module holds Some(indexer)
    vec_db,             \* GlobalContext.vec_db holds Some(indexer)
    ast_calls,          \* calls the AST indexer received since the last handler began
    vecdb_calls,        \* calls the vector indexer received since the last handler began
    disk,               \* the filesystem: content of every file, or NoFile
    vcs_ok,             \* directories whose version-control listing succeeds
    last,               \* the handler that ran last, with its arguments and what it returned
    pc,                 \* where each concurrent task stands in its handler
    loc,                \* the local variables of each concurrent task
    gcx_w,              \* the task that holds the write lock of the GlobalContext
    files_mx,           \* the task that holds the mutex of workspace_files
    snap,               \* what a reader of workspace_files saw in the step just taken
    locks               \* who holds each lock, and whether for reading or for writing

store_vars == <<workspace_folders, workspace_files, document_map, cache_dirty, fs_watcher,
                watcher_live, panicked>>
indexer_vars == <<ast_module, vec_db, ast_calls, vecdb_calls>>
env_vars == <<disk, vcs_ok>>
conc_vars == <<pc, loc, gcx_w, files_mx, snap, locks>>
vars == <<store_vars, indexer_vars, env_vars, last, conc_vars>>

\* ------------------------------------------------------------- documents
\* Document::new
Document(language_id, text) == [language_id |-> language_id, text |-> text]
\* DocumentInfo { uri, document }
DocumentInfo(uri, document) == [uri |-> uri, document |-> document]

\* DocumentInfo::from_pathbuf followed by .ok(): the empty sequence is Err
from_pathbuf(path) ==
    IF pathbuf_to_url(path) = NoneOpt THEN <<>>
    ELSE <<DocumentInfo(url_of(path), NoneOpt)>>

\* tokio::fs::read_to_string
read_to_string(path) ==
    IF path \in AllFiles /\ disk[path] # NoFile THEN disk[path] ELSE Err

\* DocumentInfo::read_file
read_file(doc_info) ==
    IF doc_info.document # NoneOpt THEN doc_info.document[1].text
    ELSE read_to_string(get_path(doc_info.uri))

\* ------------------------------------------------------------ discovery
is_file(path) == path \in AllFiles /\ disk[path] # NoFile
is_dir(path) == path \in AllDirs

\* crate::vecdb::file_filter::is_valid_file: an existing file with an
\* extension the indexers take
is_valid_file(path) == is_file(path) /\ file_name(path) # "pic.bin"

\* _run_command's output lines joined to the directory
_ls_files_under_version_control(path) ==
    IF path \in vcs_ok
    THEN Some(SelectSeq(EntryOrder, LAMBDA f: f \in TrackedFiles /\ is_file(f) /\ IsPrefix(path, f)))
    ELSE NoneOpt

\* an expansion that gives up on a directory whose listing is unavailable
dir_entries_none(local_path) == <<>>

\* WalkDir::new(local_path).max_depth(1) without local_path itself
dir_entries(local_path) ==
    SelectSeq(EntryOrder, LAMBDA e: Len(e) > 0 /\ parent(e) = local_path /\ (is_file(e) \/ is_dir(e)))

\* the while loop of _ls_files_under_version_control_recursive
RECURSIVE walk_candidates(_, _)
walk_candidates(candidates, paths) ==
    IF candidates = <<>> THEN paths
    ELSE LET local_path == candidates[Len(candidates)]
             rest == SubSeq(candidates, 1, Len(candidates) - 1)
             maybe_files == _ls_files_under_version_control(local_path)
         IN  IF is_file(local_path)
             THEN IF is_valid_file(local_path)
                  THEN walk_candidates(rest, Append(paths, local_path))
                  ELSE walk_candidates(rest, paths)
             ELSE IF is_dir(local_path)
             THEN IF file_name(local_path) \in BLACKLISTED_DIRS
                  THEN walk_candidates(rest, paths)
                  ELSE IF maybe_files # NoneOpt
                  THEN walk_candidates(rest, paths \o maybe_files[1])
                  ELSE walk_candidates(rest \o dir_entries(local_path), paths)
             ELSE walk_candidates(rest, paths)

_ls_files_under_version_control_recursive(path) == walk_candidates(<<path>>, <<>>)

RECURSIVE docs_of_paths(_)
docs_of_paths(files) ==
    IF files = <<>> THEN <<>>
    ELSE from_pathbuf(Head(files)) \o docs_of_paths(Tail(files))

RECURSIVE _retrieve_files_by_proj_folders(_)
_retrieve_files_by_proj_folders(proj_folders) ==
    IF proj_folders = <<>> THEN <<>>
    ELSE docs_of_paths(_ls_files_under_version_control_recursive(Head(proj_folders)))
         \o _retrieve_files_by_proj_folders(Tail(proj_folders))

\* docs.iter().map(|x| x.uri.clone()).collect()
uris_of(docs) == [i \in 1..Len(docs) |-> docs[i].uri]

\* ------------------------------------------------------------- indexers
\* one call an indexer received
Call(op, docs, force, path) == [op |-> op, docs |-> docs, force |-> force, path |-> path]

\* a fan-out that calls the indexer whether or not the slot holds one
enqueue_call_unwrap(module, calls, docs, force) ==
    Append(calls, Call("enqueue", docs, force, <<>>))

\* match *module.lock().await { Some(m) => m.enqueue_files(&docs, force), None => {} }
enqueue_call(module, calls, docs, force) ==
    IF module THEN Append(calls, Call("enqueue", docs, force, <<>>)) ELSE calls

\* HashMap::new
EmptyMap == [k \in {} |-> <<>>]

\* the handler that ran, for the properties to name
Op(op, kind, paths, text) == [op |-> op, kind |-> kind, paths |-> paths, text |-> text]

\* the tasks that run handlers concurrently: a task of the async runtime that
\* serves the editor, and the thread of the watcher callback, which handles
\* one event at a time
Tasks == {"lsp", "watcher"}
NoTask == "none"
\* the locals of a task: the folders it cloned, the documents it found or
\* classified, the known files it found when it locked them, its event, and
\* whether it has set the staleness flag and mutated the known files, and
\* whether the filesystem changed after it had walked it
NoLocals == [folders |-> <<>>, docs |-> <<>>, pre |-> <<>>, kind |-> "", paths |-> <<>>,
             flagged |-> FALSE, mutated |-> FALSE, prog |-> <<>>, ip |-> 0, stale |-> FALSE]

\* the lock of the GlobalContext, the locks of the fields of DocumentsState
\* and the locks of the two indexer slots
OuterLock == "gcx"
InnerLocks == {"workspace_folders", "workspace_files", "document_map", "cache_dirty",
               "fs_watcher"}
IndexerLocks == {"ast_module", "vec_db"}
LockNames == {OuterLock} \cup InnerLocks \cup IndexerLocks
\* the work of an indexer itself, which holds the lock of its slot meanwhile
IndexerWork == "indexer"
\* a snapshot of the known files, with the contents before and after of the
\* replacements that were under way when it was taken
NoSnap == [taken |-> FALSE, files |-> <<>>, replacing |-> {}, in_flight |-> FALSE]

\* ------------------------------------------------------------------ Init
\* DocumentsState::empty(workspace_dirs) in a fresh GlobalContext
Init ==
    /\ workspace_folders \in {<<>>, <<W1>>}
    /\ workspace_files = <<>>
    /\ document_map = EmptyMap
    /\ cache_dirty = FALSE
    /\ fs_watcher = {}
    /\ watcher_live = FALSE
    /\ panicked = FALSE
    /\ ast_module \in BOOLEAN
    /\ vec_db \in BOOLEAN
    /\ ast_calls = <<>>
    /\ vecdb_calls = <<>>
    /\ disk = [f \in AllFiles |-> "d1"]
    /\ vcs_ok \in SUBSET VcsDirs
    /\ last = Op("new", "", <<>>, "")
    /\ pc = [t \in Tasks |-> "idle"]
    /\ loc = [t \in Tasks |-> NoLocals]
    /\ gcx_w = NoTask
    /\ files_mx = NoTask
    /\ snap = NoSnap
    /\ locks = [l \in LockNames |-> {}]

\* --------------------------------------------------------------- readers
\* a reader that trusts the disk and falls back to the overlay
text_from_disk_or_memory(file_path) ==
    LET url_mb == pathbuf_to_url(file_path) IN
    IF from_pathbuf(file_path) = <<>>
    THEN "cannot parse filepath"
    ELSE IF read_to_string(file_path) # Err
         THEN read_to_string(file_path)
         ELSE IF url_mb[1] \in DOMAIN document_map
              THEN document_map[url_mb[1]].text
              ELSE Err

\* get_file_text_from_memory_or_disk: the text, or an error message
text_from_memory_or_disk(file_path) ==
    LET url_mb == pathbuf_to_url(file_path) IN
    IF url_mb # NoneOpt /\ url_mb[1] \in DOMAIN document_map
    THEN document_map[url_mb[1]].text
    ELSE IF from_pathbuf(file_path) = <<>>
         THEN "cannot parse filepath"
         ELSE read_file(from_pathbuf(file_path)[1])

get_file_text_from_memory_or_disk(file_path) ==
    /\ ~panicked
    /\ last' = Op("get_file_text_from_memory_or_disk", "", <<file_path>>,
                  text_from_memory_or_disk(file_path))
    /\ UNCHANGED <<conc_vars, store_vars, indexer_vars, env_vars>>

\* ------------------------------------------------------- editor handlers
\* HashMap::insert
map_insert(map, key, value) ==
    [k \in DOMAIN map \cup {key} |-> IF k = key THEN value ELSE map[k]]
\* a removal that leaves the entry in place
map_keep(map, key) == map
\* HashMap::remove
map_remove(map, key) == [k \in DOMAIN map \ {key} |-> map[k]]

\* an open handler that also records the file as a workspace file
on_did_open_known(file_url, text, language_id) ==
    /\ ~panicked
    /\ document_map' = map_insert(document_map, file_url, Document(language_id, text))
    /\ workspace_files' = Append(workspace_files, file_url)
    /\ cache_dirty' = TRUE
    /\ ast_calls' = <<>>
    /\ vecdb_calls' = <<>>
    /\ last' = Op("on_did_open", "", <<get_path(file_url)>>, text)
    /\ UNCHANGED <<conc_vars, workspace_folders, fs_watcher, watcher_live, panicked,
                   ast_module, vec_db, env_vars>>

on_did_open(file_url, text, language_id) ==
    /\ ~panicked
    /\ document_map' = map_insert(document_map, file_url, Document(language_id, text))
    /\ cache_dirty' = TRUE
    /\ ast_calls' = <<>>
    /\ vecdb_calls' = <<>>
    /\ last' = Op("on_did_open", "", <<get_path(file_url)>>, text)
    /\ UNCHANGED <<conc_vars, workspace_folders, workspace_files, fs_watcher, watcher_live, panicked,
                   ast_module, vec_db, env_vars>>

\* a change handler that hands the indexers the document without its overlay
on_did_change_no_overlay(file_url, text) ==
    LET known == file_url \in DOMAIN document_map
        doc == IF known THEN [document_map[file_url] EXCEPT !.text = text]
               ELSE Document("unknown", text)
        doc_info == DocumentInfo(file_url, NoneOpt)
        valid == is_valid_file(get_path(doc_info.uri))
    IN
    /\ ~panicked
    /\ document_map' = map_insert(document_map, file_url, doc)
    /\ cache_dirty' = IF ~known THEN TRUE ELSE cache_dirty
    /\ vecdb_calls' = IF valid THEN enqueue_call(vec_db, <<>>, <<doc_info>>, FALSE) ELSE <<>>
    /\ ast_calls' = IF valid THEN enqueue_call(ast_module, <<>>, <<doc_info>>, FALSE) ELSE <<>>
    /\ last' = Op("on_did_change", "", <<get_path(file_url)>>, text)
    /\ UNCHANGED <<conc_vars, workspace_folders, workspace_files, fs_watcher, watcher_live, panicked,
                   ast_module, vec_db, env_vars>>

\* a change handler that forgets to mark the caches stale
on_did_change_never_dirty(file_url, text) ==
    LET known == file_url \in DOMAIN document_map
        doc == IF known THEN [document_map[file_url] EXCEPT !.text = text]
               ELSE Document("unknown", text)
        doc_info == DocumentInfo(file_url, Some(doc))
        valid == is_valid_file(get_path(doc_info.uri))
    IN
    /\ ~panicked
    /\ document_map' = map_insert(document_map, file_url, doc)
    /\ vecdb_calls' = IF valid THEN enqueue_call(vec_db, <<>>, <<doc_info>>, FALSE) ELSE <<>>
    /\ ast_calls' = IF valid THEN enqueue_call(ast_module, <<>>, <<doc_info>>, FALSE) ELSE <<>>
    /\ last' = Op("on_did_change", "", <<get_path(file_url)>>, text)
    /\ UNCHANGED <<conc_vars, workspace_folders, workspace_files, cache_dirty, fs_watcher,
                   watcher_live, panicked, ast_module, vec_db, env_vars>>

on_did_change(file_url, text) ==
    LET known == file_url \in DOMAIN document_map
        doc == IF known THEN [document_map[file_url] EXCEPT !.text = text]
               ELSE Document("unknown", text)
        mark_dirty == ~known
        doc_info == DocumentInfo(file_url, Some(doc))
        valid == is_valid_file(get_path(doc_info.uri))
    IN
    /\ ~panicked
    /\ document_map' = map_insert(document_map, file_url, doc)
    /\ cache_dirty' = IF mark_dirty THEN TRUE ELSE cache_dirty
    /\ vecdb_calls' = IF valid THEN enqueue_call(vec_db, <<>>, <<doc_info>>, FALSE) ELSE <<>>
    /\ ast_calls' = IF valid THEN enqueue_call(ast_module, <<>>, <<doc_info>>, FALSE) ELSE <<>>
    /\ last' = Op("on_did_change", "", <<get_path(file_url)>>, text)
    /\ UNCHANGED <<conc_vars, workspace_folders, workspace_files, fs_watcher, watcher_live, panicked,
                   ast_module, vec_db, env_vars>>

on_did_delete(file_url) ==
    /\ ~panicked
    /\ document_map' = map_remove(document_map, file_url)
    /\ cache_dirty' = TRUE
    /\ vecdb_calls' = IF vec_db THEN <<Call("remove_file", <<>>, FALSE, Tail(file_url))>> ELSE <<>>
    /\ ast_calls' = IF ast_module
                    THEN <<Call("remove_file", <<DocumentInfo(file_url, NoneOpt)>>, FALSE, <<>>)>>
                    ELSE <<>>
    /\ last' = Op("on_did_delete", "", <<get_path(file_url)>>, "")
    /\ UNCHANGED <<conc_vars, workspace_folders, workspace_files, fs_watcher, watcher_live, panicked,
                   ast_module, vec_db, env_vars>>

\* ------------------------------------------------------- full rediscovery
\* enqueue_all_files_from_workspace_folders, run over the folder list
\* `folders` by a handler whose indexer calls so far are ast_before and
\* vecdb_before
enqueue_all_files_from_workspace_folders(folders, ast_before, vecdb_before) ==
    LET docs == _retrieve_files_by_proj_folders(folders)
        tmp == uris_of(docs)
    IN
    /\ cache_dirty' = TRUE
    /\ workspace_files' = tmp
    /\ ast_calls' = enqueue_call(ast_module, ast_before, docs, FALSE)
    /\ vecdb_calls' = enqueue_call(vec_db, vecdb_before, docs, TRUE)

on_workspaces_init ==
    /\ ~panicked
    /\ enqueue_all_files_from_workspace_folders(workspace_folders, <<>>, <<>>)
    /\ last' = Op("on_workspaces_init", "", <<>>, "")
    /\ UNCHANGED <<conc_vars, workspace_folders, document_map, fs_watcher, watcher_live, panicked,
                   ast_module, vec_db, env_vars>>

\* -------------------------------------------------------- folder handlers
\* DocumentsState::init_watcher: watch(folder).unwrap() for every folder
init_watcher(watch_ok) ==
    /\ ~panicked
    /\ ~watcher_live
    /\ IF watch_ok \/ workspace_folders = <<>>
       THEN /\ fs_watcher' = Range(workspace_folders)
            /\ watcher_live' = TRUE
            /\ UNCHANGED panicked
       ELSE /\ panicked' = TRUE
            /\ UNCHANGED <<fs_watcher, watcher_live>>
    /\ last' = Op("init_watcher", "", <<>>, "")
    /\ UNCHANGED <<conc_vars, workspace_folders, workspace_files, document_map, cache_dirty,
                   indexer_vars, env_vars>>

\* Vec::retain(|p| p != path)
retain_not(folders, path) == SelectSeq(folders, LAMBDA p: p # path)

add_folder(path, watch_ok) ==
    LET docs == _retrieve_files_by_proj_folders(<<path>>) IN
    /\ ~panicked
    /\ Len(workspace_folders) < MaxFolders
    /\ workspace_folders' = Append(workspace_folders, path)
    /\ fs_watcher' = IF watch_ok THEN fs_watcher \cup {path} ELSE fs_watcher
    /\ ast_calls' = enqueue_call(ast_module, <<>>, docs, FALSE)
    /\ vecdb_calls' = enqueue_call(vec_db, <<>>, docs, FALSE)
    /\ last' = Op("add_folder", "", <<path>>, "")
    /\ UNCHANGED <<conc_vars, workspace_files, document_map, cache_dirty, watcher_live, panicked,
                   ast_module, vec_db, env_vars>>

\* a removal that rediscovers first and resets the AST index afterwards
remove_folder_reset_last(path) ==
    /\ ~panicked
    /\ workspace_folders' = retain_not(workspace_folders, path)
    /\ fs_watcher' = fs_watcher \ {path}
    /\ cache_dirty' = TRUE
    /\ workspace_files' = uris_of(_retrieve_files_by_proj_folders(retain_not(workspace_folders, path)))
    /\ ast_calls' = IF ast_module
                    THEN <<Call("enqueue", _retrieve_files_by_proj_folders(
                                    retain_not(workspace_folders, path)), FALSE, <<>>),
                           Call("reset", <<>>, FALSE, <<>>)>>
                    ELSE <<>>
    /\ vecdb_calls' = enqueue_call(vec_db, <<>>,
                          _retrieve_files_by_proj_folders(retain_not(workspace_folders, path)), TRUE)
    /\ last' = Op("remove_folder", "", <<path>>, "")
    /\ UNCHANGED <<conc_vars, document_map, watcher_live, panicked, ast_module, vec_db, env_vars>>

remove_folder(path) ==
    /\ ~panicked
    /\ workspace_folders' = retain_not(workspace_folders, path)
    /\ fs_watcher' = fs_watcher \ {path}
    /\ enqueue_all_files_from_workspace_folders(
           retain_not(workspace_folders, path),
           IF ast_module THEN <<Call("reset", <<>>, FALSE, <<>>)>> ELSE <<>>,
           <<>>)
    /\ last' = Op("remove_folder", "", <<path>>, "")
    /\ UNCHANGED <<conc_vars, document_map, watcher_live, panicked, ast_module, vec_db, env_vars>>

\* ---------------------------------------------------- filesystem watcher
\* the for loop over event.paths of the Create/Modify arm
RECURSIVE classify_paths(_)
classify_paths(paths) ==
    IF paths = <<>> THEN <<>>
    ELSE LET path == Head(paths) IN
         IF is_this_inside_blacklisted_dir(path) THEN classify_paths(Tail(paths))
         ELSE IF is_valid_file(path)
              THEN <<DocumentInfo(url_of(path), NoneOpt)>> \o classify_paths(Tail(paths))
              ELSE classify_paths(Tail(paths))

\* a Remove arm that never minds as soon as one path is blacklisted
never_mind_any(paths) ==
    \E i \in 1..Len(paths) : is_this_inside_blacklisted_dir(paths[i])

\* the for loop over event.paths of the Remove arm
RECURSIVE never_mind(_)
never_mind(paths) ==
    IF paths = <<>> THEN TRUE
    ELSE is_this_inside_blacklisted_dir(Head(paths)) /\ never_mind(Tail(paths))

\* a fan-out that stops after the first indexer
enqueue_files_ast_only(docs) ==
    /\ ast_calls' = enqueue_call(ast_module, <<>>, docs, TRUE)
    /\ vecdb_calls' = <<>>

\* enqueue_files
enqueue_files(docs) ==
    /\ ast_calls' = enqueue_call(ast_module, <<>>, docs, TRUE)
    /\ vecdb_calls' = enqueue_call(vec_db, <<>>, docs, FALSE)

file_watcher_thread(kind, paths) ==
    LET docs == classify_paths(paths) IN
    /\ ~panicked
    /\ watcher_live
    /\ \A i \in 1..Len(paths) : \E w \in fs_watcher : IsPrefix(w, paths[i])
    /\ last' = Op("file_watcher_thread", kind, paths, "")
    /\ UNCHANGED <<conc_vars, workspace_folders, document_map, fs_watcher, watcher_live, panicked,
                   ast_module, vec_db, env_vars>>
    /\ IF kind \in {"Create", "Modify"} /\ docs # <<>>
       THEN /\ kind = "Create" => Len(workspace_files) + Len(docs) <= MaxFiles
            /\ workspace_files' = IF kind = "Create" THEN workspace_files \o uris_of(docs)
                                  ELSE workspace_files
            /\ enqueue_files(docs)
            /\ UNCHANGED cache_dirty
       ELSE IF kind = "Remove" /\ ~never_mind(paths)
       THEN enqueue_all_files_from_workspace_folders(workspace_folders, <<>>, <<>>)
       ELSE /\ ast_calls' = <<>>
            /\ vecdb_calls' = <<>>
            /\ UNCHANGED <<workspace_files, cache_dirty>>

\* ------------------------------------------------- concurrent handlers
\* The handlers as the tasks of the async runtime run them: one step from
\* one lock acquisition or await to the next.  A read lock of the
\* GlobalContext that is held only to clone handles is one step.

Goto(t, label) == pc' = [pc EXCEPT ![t] = label]
Finish(t) == pc' = [pc EXCEPT ![t] = "idle"] /\ loc' = [loc EXCEPT ![t] = NoLocals]
unchanged_store == UNCHANGED <<workspace_folders, document_map, fs_watcher, watcher_live,
                               panicked, ast_module, vec_db, env_vars, last, locks>>

\* a task enters enqueue_all_files_from_workspace_folders (on_workspaces_init)
ea_begin(t) ==
    /\ ~panicked
    /\ pc[t] = "idle"
    /\ Goto(t, "ea_folders")
    /\ ast_calls' = <<>>
    /\ vecdb_calls' = <<>>
    /\ UNCHANGED <<loc, gcx_w, files_mx, workspace_files, cache_dirty>>
    /\ snap' = NoSnap
    /\ unchanged_store

\* gcx.read(): clone workspace_folders
ea_folders(t) ==
    /\ pc[t] = "ea_folders"
    /\ gcx_w = NoTask
    /\ loc' = [loc EXCEPT ![t].folders = workspace_folders]
    /\ Goto(t, "ea_walk")
    /\ UNCHANGED <<gcx_w, files_mx, workspace_files, cache_dirty, ast_calls, vecdb_calls>>
    /\ snap' = NoSnap
    /\ unchanged_store

\* _retrieve_files_by_proj_folders(folders), no lock held
ea_walk(t) ==
    /\ pc[t] = "ea_walk"
    /\ loc' = [loc EXCEPT ![t].docs = _retrieve_files_by_proj_folders(loc[t].folders)]
    /\ Goto(t, "ea_write")
    /\ UNCHANGED <<gcx_w, files_mx, workspace_files, cache_dirty, ast_calls, vecdb_calls>>
    /\ snap' = NoSnap
    /\ unchanged_store

\* gcx.write()
ea_write(t) ==
    /\ pc[t] = "ea_write"
    /\ gcx_w = NoTask
    /\ gcx_w' = t
    /\ Goto(t, "ea_dirty")
    /\ UNCHANGED <<loc, files_mx, workspace_files, cache_dirty, ast_calls, vecdb_calls>>
    /\ snap' = NoSnap
    /\ unchanged_store

\* *cache_dirty.lock().await = true
ea_dirty(t) ==
    /\ pc[t] = "ea_dirty"
    /\ cache_dirty' = TRUE
    /\ loc' = [loc EXCEPT ![t].flagged = TRUE]
    /\ Goto(t, "ea_lock_files")
    /\ UNCHANGED <<gcx_w, files_mx, workspace_files, ast_calls, vecdb_calls>>
    /\ snap' = NoSnap
    /\ unchanged_store

\* workspace_files.lock().unwrap()
ea_lock_files(t) ==
    /\ pc[t] = "ea_lock_files"
    /\ files_mx = NoTask
    /\ files_mx' = t
    /\ loc' = [loc EXCEPT ![t].pre = workspace_files]
    /\ Goto(t, "ea_clear")
    /\ UNCHANGED <<gcx_w, workspace_files, cache_dirty, ast_calls, vecdb_calls>>
    /\ snap' = NoSnap
    /\ unchanged_store

\* a clear that lets go of the mutex before the list is repopulated
ea_clear_unlocked(t) ==
    /\ pc[t] = "ea_clear"
    /\ workspace_files' = <<>>
    /\ files_mx' = NoTask
    /\ Goto(t, "ea_extend")
    /\ UNCHANGED <<loc, gcx_w, cache_dirty, ast_calls, vecdb_calls>>
    /\ snap' = NoSnap
    /\ unchanged_store

\* workspace_files.clear()
ea_clear(t) ==
    /\ pc[t] = "ea_clear"
    /\ workspace_files' = <<>>
    /\ Goto(t, "ea_extend")
    /\ UNCHANGED <<loc, gcx_w, files_mx, cache_dirty, ast_calls, vecdb_calls>>
    /\ snap' = NoSnap
    /\ unchanged_store

\* workspace_files.extend(tmp); the guards of the mutex and of gcx are dropped
ea_extend(t) ==
    /\ pc[t] = "ea_extend"
    /\ workspace_files' = workspace_files \o uris_of(loc[t].docs)
    /\ files_mx' = NoTask
    /\ gcx_w' = NoTask
    /\ loc' = [loc EXCEPT ![t].mutated = TRUE]
    /\ Goto(t, "ea_ast")
    /\ last' = IF loc[t].stale THEN last
               ELSE Op("enqueue_all_files_from_workspace_folders", "", <<>>, "")
    /\ UNCHANGED <<cache_dirty, ast_calls, vecdb_calls>>
    /\ snap' = NoSnap
    /\ UNCHANGED <<workspace_folders, document_map, fs_watcher, watcher_live,
                   panicked, ast_module, vec_db, env_vars, locks>>

\* ast.ast_indexer_enqueue_files(&docs, false)
ea_ast(t) ==
    /\ pc[t] = "ea_ast"
    /\ ast_calls' = enqueue_call(ast_module, ast_calls, loc[t].docs, FALSE)
    /\ Goto(t, "ea_vecdb")
    /\ UNCHANGED <<loc, gcx_w, files_mx, workspace_files, cache_dirty, vecdb_calls>>
    /\ snap' = NoSnap
    /\ unchanged_store

\* db.vectorizer_enqueue_files(&docs, true)
ea_vecdb(t) ==
    /\ pc[t] = "ea_vecdb"
    /\ vecdb_calls' = enqueue_call(vec_db, vecdb_calls, loc[t].docs, TRUE)
    /\ Finish(t)
    /\ UNCHANGED <<gcx_w, files_mx, workspace_files, cache_dirty, ast_calls>>
    /\ snap' = NoSnap
    /\ unchanged_store

\* a watcher that enqueues the documents of a Create event without first
\* appending them to the known files
fw_begin_enqueue_first(t, kind, paths) ==
    LET docs == classify_paths(paths) IN
    /\ ~panicked
    /\ watcher_live
    /\ \A i \in 1..Len(paths) : \E w \in fs_watcher : IsPrefix(w, paths[i])
    /\ pc[t] = "idle"
    /\ ast_calls' = <<>>
    /\ vecdb_calls' = <<>>
    /\ IF kind \in {"Create", "Modify"} /\ docs # <<>>
       THEN /\ loc' = [loc EXCEPT ![t] = [NoLocals EXCEPT !.docs = docs, !.kind = kind,
                                                           !.paths = paths]]
            /\ Goto(t, "ef_clone")
       ELSE IF kind = "Remove" /\ ~never_mind(paths)
       THEN /\ loc' = [loc EXCEPT ![t] = [NoLocals EXCEPT !.kind = kind, !.paths = paths]]
            /\ Goto(t, "ea_folders")
       ELSE UNCHANGED <<pc, loc>>
    /\ UNCHANGED <<gcx_w, files_mx, workspace_files, cache_dirty>>
    /\ snap' = NoSnap
    /\ unchanged_store

\* the watcher thread takes an event: the match on event.kind and the loops
\* over event.paths
fw_begin(t, kind, paths) ==
    LET docs == classify_paths(paths) IN
    /\ ~panicked
    /\ watcher_live
    /\ \A i \in 1..Len(paths) : \E w \in fs_watcher : IsPrefix(w, paths[i])
    /\ pc[t] = "idle"
    /\ ast_calls' = <<>>
    /\ vecdb_calls' = <<>>
    /\ IF kind \in {"Create", "Modify"} /\ docs # <<>>
       THEN /\ loc' = [loc EXCEPT ![t] = [NoLocals EXCEPT !.docs = docs, !.kind = kind,
                                                           !.paths = paths]]
            /\ Goto(t, IF kind = "Create" THEN "fw_write" ELSE "ef_clone")
       ELSE IF kind = "Remove" /\ ~never_mind(paths)
       THEN /\ loc' = [loc EXCEPT ![t] = [NoLocals EXCEPT !.kind = kind, !.paths = paths]]
            /\ Goto(t, "ea_folders")
       ELSE UNCHANGED <<pc, loc>>
    /\ UNCHANGED <<gcx_w, files_mx, workspace_files, cache_dirty>>
    /\ snap' = NoSnap
    /\ unchanged_store

\* gcx.clone().write().await of the Create arm
fw_write(t) ==
    /\ pc[t] = "fw_write"
    /\ gcx_w = NoTask
    /\ gcx_w' = t
    /\ Goto(t, "fw_append")
    /\ UNCHANGED <<loc, files_mx, workspace_files, cache_dirty, ast_calls, vecdb_calls>>
    /\ snap' = NoSnap
    /\ unchanged_store

\* workspace_files.lock().unwrap().extend(tmp)
fw_append(t) ==
    /\ pc[t] = "fw_append"
    /\ files_mx = NoTask
    /\ Len(workspace_files) + Len(loc[t].docs) <= MaxFiles
    /\ workspace_files' = workspace_files \o uris_of(loc[t].docs)
    /\ gcx_w' = NoTask
    /\ loc' = [loc EXCEPT ![t].mutated = TRUE]
    /\ Goto(t, "ef_clone")
    /\ last' = Op("fw_append", loc[t].kind, loc[t].paths, "")
    /\ UNCHANGED <<files_mx, cache_dirty, ast_calls, vecdb_calls>>
    /\ snap' = NoSnap
    /\ UNCHANGED <<workspace_folders, document_map, fs_watcher, watcher_live,
                   panicked, ast_module, vec_db, env_vars, locks>>

\* enqueue_files: gcx.read(), clone the two indexer handles
ef_clone(t) ==
    /\ pc[t] = "ef_clone"
    /\ gcx_w = NoTask
    /\ Goto(t, "ef_ast")
    /\ UNCHANGED <<loc, gcx_w, files_mx, workspace_files, cache_dirty, ast_calls,
                   vecdb_calls>>
    /\ snap' = NoSnap
    /\ unchanged_store

\* ast.ast_indexer_enqueue_files(&docs, true)
ef_ast(t) ==
    /\ pc[t] = "ef_ast"
    /\ ast_calls' = enqueue_call(ast_module, ast_calls, loc[t].docs, TRUE)
    /\ Goto(t, "ef_vecdb")
    /\ UNCHANGED <<loc, gcx_w, files_mx, workspace_files, cache_dirty, vecdb_calls>>
    /\ snap' = NoSnap
    /\ unchanged_store

\* db.vectorizer_enqueue_files(&docs, false)
ef_vecdb(t) ==
    /\ pc[t] = "ef_vecdb"
    /\ vecdb_calls' = enqueue_call(vec_db, vecdb_calls, loc[t].docs, FALSE)
    /\ Finish(t)
    /\ UNCHANGED <<gcx_w, files_mx, workspace_files, cache_dirty, ast_calls>>
    /\ snap' = NoSnap
    /\ unchanged_store

\* the tasks that are between the clear and the end of the extend
replacing == {t \in Tasks : pc[t] \in {"ea_clear", "ea_extend"}}
\* the tasks that run a full rediscovery
rediscovering == {t \in Tasks : pc[t] \in {"ea_folders", "ea_walk", "ea_write", "ea_dirty",
                                           "ea_lock_files", "ea_clear", "ea_extend"}}

\* the tasks whose rediscovery has walked the folders
walked == {t \in Tasks : pc[t] \in {"ea_write", "ea_dirty", "ea_lock_files", "ea_clear",
                                    "ea_extend", "ea_ast", "ea_vecdb"}}
\* the locals after a change of the filesystem: what a task has walked is
\* out of date
outdated(l) == [t \in Tasks |-> IF t \in walked THEN [l[t] EXCEPT !.stale = TRUE] ELSE l[t]]

\* a reader of the known files: workspace_files.lock().unwrap().clone()
snapshot_known_files ==
    /\ ~panicked
    /\ files_mx = NoTask
    /\ snap' = [taken |-> TRUE,
                files |-> workspace_files,
                replacing |-> {<<loc[t].pre, uris_of(loc[t].docs)>> : t \in replacing},
                in_flight |-> rediscovering # {}]
    /\ UNCHANGED <<pc, loc, gcx_w, files_mx, workspace_files, cache_dirty, ast_calls, vecdb_calls>>
    /\ unchanged_store

\* ------------------------------------------------- handlers, lock by lock
\* Every handler as the sequence of its lock operations and indexer calls:
\* <<"read", l>> and <<"write", l>> take an RwLock, <<"lock", l>> takes a
\* Mutex, <<"unlock", l>> drops the guard (at the end of the statement for a
\* temporary, at the end of the block for a binding), <<"call", l>> is the
\* call of the indexer in slot l and <<"walk", "">> the discovery walk.

\* match *slot.lock().await { Some(ref mut m) => m.call(..).await, None => {} };
match_call(slot) == << <<"lock", slot>>, <<"call", slot>>, <<"unlock", slot>> >>

\* let (ast_module, vecdb_module) = { let cx_locked = gcx.read().await; (.., ..) };
clone_handles == << <<"read", OuterLock>>, <<"unlock", OuterLock>> >>

\* on_did_open
prog_on_did_open ==
    clone_handles
    \o << <<"write", "document_map">>, <<"unlock", "document_map">>,
          <<"lock", "cache_dirty">>, <<"unlock", "cache_dirty">> >>

\* on_did_change, for an identity without an entry (mark_dirty) or with
\* one, of a file that is valid or not
prog_on_did_change(mark_dirty, valid) ==
    clone_handles
    \o << <<"write", "document_map">>, <<"unlock", "document_map">> >>
    \o (IF mark_dirty THEN << <<"lock", "cache_dirty">>, <<"unlock", "cache_dirty">> >>
        ELSE <<>>)
    \o (IF valid THEN clone_handles \o match_call("vec_db") \o match_call("ast_module")
        ELSE <<>>)

\* a delete handler that calls the vector indexer inside the block that
\* holds the context and the overlay map
prog_on_did_delete_call_inside ==
    << <<"read", OuterLock>>, <<"write", "document_map">>,
       <<"lock", "vec_db">>, <<"call", "vec_db">>, <<"unlock", "vec_db">>,
       <<"unlock", "document_map">>, <<"unlock", OuterLock>>,
       <<"lock", "cache_dirty">>, <<"unlock", "cache_dirty">> >>
    \o clone_handles \o match_call("ast_module")

\* on_did_delete: the overlay map is locked inside the block that holds the
\* read guard of the context
prog_on_did_delete ==
    << <<"read", OuterLock>>, <<"write", "document_map">>,
       <<"unlock", "document_map">>, <<"unlock", OuterLock>>,
       <<"lock", "cache_dirty">>, <<"unlock", "cache_dirty">> >>
    \o clone_handles \o match_call("vec_db") \o match_call("ast_module")

\* get_file_text_from_memory_or_disk: both read guards are temporaries of one
\* statement
prog_get_file_text ==
    << <<"read", OuterLock>>, <<"read", "document_map">>,
       <<"unlock", "document_map">>, <<"unlock", OuterLock>> >>

\* enqueue_files
prog_enqueue_files ==
    clone_handles \o match_call("ast_module") \o match_call("vec_db")

\* enqueue_all_files_from_workspace_folders
prog_enqueue_all ==
    << <<"read", OuterLock>>, <<"lock", "workspace_folders">>,
       <<"unlock", "workspace_folders">>, <<"unlock", OuterLock>>,
       <<"walk", "">>,
       <<"write", OuterLock>>, <<"lock", "cache_dirty">>, <<"unlock", "cache_dirty">>,
       <<"lock", "workspace_files">>, <<"unlock", "workspace_files">>,
       <<"unlock", OuterLock>> >>
    \o match_call("ast_module") \o match_call("vec_db")

\* the first block of add_folder and of remove_folder
prog_edit_folders ==
    << <<"write", OuterLock>>, <<"lock", "workspace_folders">>,
       <<"unlock", "workspace_folders">>, <<"write", "fs_watcher">>,
       <<"unlock", "fs_watcher">>, <<"unlock", OuterLock>> >>

\* a folder handler that locks the watcher before it asks for the context
prog_add_folder_watcher_first ==
    << <<"write", "fs_watcher">>, <<"write", OuterLock>>,
       <<"lock", "workspace_folders">>, <<"unlock", "workspace_folders">>,
       <<"unlock", OuterLock>>, <<"unlock", "fs_watcher">>, <<"walk", "">> >>
    \o clone_handles \o match_call("ast_module") \o match_call("vec_db")

\* add_folder
prog_add_folder ==
    prog_edit_folders \o << <<"walk", "">> >>
    \o clone_handles \o match_call("ast_module") \o match_call("vec_db")

\* remove_folder
prog_remove_folder ==
    prog_edit_folders \o clone_handles \o match_call("ast_module") \o prog_enqueue_all

\* a Create arm that takes the known files before the context
prog_file_watcher_thread_inner_first(kind) ==
    IF kind = "Create"
    THEN << <<"lock", "workspace_files">>, <<"write", OuterLock>>,
            <<"unlock", OuterLock>>, <<"unlock", "workspace_files">> >>
         \o prog_enqueue_files
    ELSE IF kind = "Modify" THEN prog_enqueue_files
    ELSE IF kind = "Remove" THEN prog_enqueue_all
    ELSE <<>>

\* file_watcher_thread for an event with documents to enqueue (Create,
\* Modify) or that makes it rediscover (Remove)
prog_file_watcher_thread(kind) ==
    IF kind = "Create"
    THEN << <<"write", OuterLock>>, <<"lock", "workspace_files">>,
            <<"unlock", "workspace_files">>, <<"unlock", OuterLock>> >>
         \o prog_enqueue_files
    ELSE IF kind = "Modify" THEN prog_enqueue_files
    ELSE IF kind = "Remove" THEN prog_enqueue_all
    ELSE <<>>

\* the handlers a task may run
Programs ==
    {prog_on_did_open, prog_on_did_delete, prog_get_file_text, prog_add_folder,
     prog_remove_folder, prog_enqueue_all}
    \cup {prog_on_did_change(m, v) : m \in BOOLEAN, v \in BOOLEAN}
    \cup {prog_file_watcher_thread(k) : k \in {"Create", "Modify", "Remove"}}

\* the locks a holder has
held(h) == {l \in LockNames : \E m \in {"r", "w"} : <<h, m>> \in locks[l]}
\* an RwLock grants a read while nobody writes, and a write, like a Mutex its
\* lock, while nobody holds it
can_acquire(op, l) ==
    IF op = "read" THEN \A x \in locks[l] : x[2] = "r" ELSE locks[l] = {}
\* the instruction a task is at
instr(t) == loc[t].prog[loc[t].ip]
running(t) == pc[t] = "locks"
waiting(t) ==
    /\ running(t)
    /\ instr(t)[1] \in {"read", "write", "lock"}
    /\ ~can_acquire(instr(t)[1], instr(t)[2])

unchanged_data == UNCHANGED <<store_vars, indexer_vars, env_vars, last, gcx_w, files_mx>>

\* a task enters a handler
lk_begin(t, prog) ==
    /\ pc[t] = "idle"
    /\ prog # <<>>
    /\ pc' = [pc EXCEPT ![t] = "locks"]
    /\ loc' = [loc EXCEPT ![t] = [NoLocals EXCEPT !.prog = prog, !.ip = 1]]
    /\ snap' = NoSnap
    /\ UNCHANGED locks
    /\ unchanged_data

\* a task executes the instruction it is at
lk_step(t) ==
    /\ running(t)
    /\ LET op == instr(t)[1]
           l == instr(t)[2]
       IN  CASE op \in {"read", "write", "lock"} ->
                    /\ can_acquire(op, l)
                    /\ locks' = [locks EXCEPT ![l] = @ \cup {<<t, IF op = "read" THEN "r" ELSE "w">>}]
              [] op = "unlock" ->
                    locks' = [locks EXCEPT ![l] = {x \in @ : x[1] # t}]
              [] OTHER -> UNCHANGED locks
    /\ IF loc[t].ip = Len(loc[t].prog)
       THEN Finish(t)
       ELSE /\ loc' = [loc EXCEPT ![t].ip = @ + 1]
            /\ UNCHANGED pc
    /\ snap' = NoSnap
    /\ unchanged_data

\* an indexer starts work of its own under the lock of its slot
IndexerHold(l) ==
    /\ locks[l] = {}
    /\ locks' = [locks EXCEPT ![l] = {<<IndexerWork, "w">>}]
    /\ snap' = NoSnap
    /\ UNCHANGED <<pc, loc>>
    /\ unchanged_data

\* and ends it
IndexerRelease(l) ==
    /\ <<IndexerWork, "w">> \in locks[l]
    /\ locks' = [locks EXCEPT ![l] = {}]
    /\ snap' = NoSnap
    /\ UNCHANGED <<pc, loc>>
    /\ unchanged_data

\* ----------------------------------------------------------- environment
\* another process writes a file
FsWrite(f, text) ==
    /\ disk[f] # text
    /\ disk' = [disk EXCEPT ![f] = text]
    /\ last' = Op("FsWrite", "", <<f>>, text)
    /\ loc' = outdated(loc)
    /\ UNCHANGED <<pc, gcx_w, files_mx, snap, locks, store_vars, indexer_vars, vcs_ok>>

\* another process removes a file
FsRemove(f) ==
    /\ disk[f] # NoFile
    /\ disk' = [disk EXCEPT ![f] = NoFile]
    /\ last' = Op("FsRemove", "", <<f>>, "")
    /\ loc' = outdated(loc)
    /\ UNCHANGED <<pc, gcx_w, files_mx, snap, locks, store_vars, indexer_vars, vcs_ok>>

\* the version-control marker or tool of a directory appears or goes away
VcsToggle(d) ==
    /\ vcs_ok' = IF d \in vcs_ok THEN vcs_ok \ {d} ELSE vcs_ok \cup {d}
    /\ last' = Op("VcsToggle", "", <<d>>, "")
    /\ UNCHANGED <<conc_vars, store_vars, indexer_vars, disk>>

\* a consumer of the derived caches rebuilds them and clears the flag
ConsumeCache ==
    /\ ~panicked
    /\ cache_dirty
    /\ cache_dirty' = FALSE
    /\ last' = Op("ConsumeCache", "", <<>>, "")
    /\ UNCHANGED <<conc_vars, workspace_folders, workspace_files, document_map, fs_watcher, watcher_live,
                   panicked, indexer_vars, env_vars>>

\* ------------------------------------------------------------------ Next
EditorUrls == {url_of(F_a), url_of(F_c)}
ReadPaths == {F_a, RelPath}
EventKinds == {"Create", "Modify", "Remove", "Other"}
EventPaths == {F_a, F_gen, F_dot, F_bin}
\* the path lists of the events: none, one path, or two paths
PathSeqs ==
    {<<>>} \cup {<<p>> : p \in EventPaths}
           \cup {<<F_a, F_gen>>, <<F_gen, F_a>>}
           \cup {<<F_gen, F_dot>>}

\* the editor opens, changes and closes documents and the server reads them,
\* over a workspace that is discovered once in a while
NextDocs ==
    \/ on_workspaces_init
    \/ \E u \in EditorUrls, t \in EditorTexts, l \in Languages : on_did_open(u, t, l)
    \/ \E u \in EditorUrls, t \in EditorTexts : on_did_change(u, t)
    \/ \E u \in EditorUrls : on_did_delete(u)
    \/ \E p \in ReadPaths : get_file_text_from_memory_or_disk(p)
    \/ \E f \in VolatileFiles, t \in DiskTexts : FsWrite(f, t)
    \/ \E f \in VolatileFiles : FsRemove(f)
    \/ ConsumeCache

\* the editor adds and removes workspace folders
NextFolders ==
    \/ \E watch_ok \in BOOLEAN : init_watcher(watch_ok)
    \/ on_workspaces_init
    \/ \E p \in Folders, watch_ok \in BOOLEAN : add_folder(p, watch_ok)
    \/ \E p \in Folders : remove_folder(p)
    \/ \E f \in VolatileFiles : FsWrite(f, "d1")
    \/ \E f \in VolatileFiles : FsRemove(f)
    \/ \E d \in VcsDirs : VcsToggle(d)
    \/ ConsumeCache

\* the filesystem watcher reports events
NextWatcher ==
    \/ \E watch_ok \in BOOLEAN : init_watcher(watch_ok)
    \/ on_workspaces_init
    \/ \E k \in EventKinds, ps \in PathSeqs : file_watcher_thread(k, ps)
    \/ \E f \in VolatileFiles : FsWrite(f, "d1")
    \/ \E f \in VolatileFiles : FsRemove(f)
    \/ \E d \in VcsDirs : VcsToggle(d)
    \/ ConsumeCache

\* the events the watcher thread takes while other handlers run
ConcEvents ==
    {<<"Create", <<F_a>>>>, <<"Modify", <<F_a>>>>, <<"Remove", <<F_a>>>>,
     <<"Remove", <<F_gen>>>>, <<"Create", <<F_gen, F_a>>>>}

\* rediscoveries, watcher events and readers of the known files, interleaved
NextConc ==
    \/ \E watch_ok \in BOOLEAN : init_watcher(watch_ok)
    \/ ea_begin("lsp")
    \/ \E t \in Tasks : ea_folders(t)
    \/ \E t \in Tasks : ea_walk(t)
    \/ \E t \in Tasks : ea_write(t)
    \/ \E t \in Tasks : ea_dirty(t)
    \/ \E t \in Tasks : ea_lock_files(t)
    \/ \E t \in Tasks : ea_clear(t)
    \/ \E t \in Tasks : ea_extend(t)
    \/ \E t \in Tasks : ea_ast(t)
    \/ \E t \in Tasks : ea_vecdb(t)
    \/ \E e \in ConcEvents : fw_begin("watcher", e[1], e[2])
    \/ \E t \in Tasks : fw_write(t)
    \/ \E t \in Tasks : fw_append(t)
    \/ \E t \in Tasks : ef_clone(t)
    \/ \E t \in Tasks : ef_ast(t)
    \/ \E t \in Tasks : ef_vecdb(t)
    \/ snapshot_known_files
    \/ \E f \in VolatileFiles : FsWrite(f, "d1")
    \/ \E f \in VolatileFiles : FsRemove(f)

\* the events of the fan-outs
FanoutEvents ==
    {<<"Create", <<F_a>>>>, <<"Modify", <<F_a, F_gen>>>>, <<"Remove", <<F_a>>>>,
     <<"Remove", <<F_gen>>>>, <<"Create", <<F_bin>>>>}

\* every handler that propagates to the indexers, one at a time
NextFanout ==
    \/ init_watcher(TRUE)
    \/ on_workspaces_init
    \/ \E t \in EditorTexts : on_did_change(url_of(F_a), t)
    \/ on_did_delete(url_of(F_a))
    \/ \E p \in Folders : add_folder(p, TRUE)
    \/ \E e \in FanoutEvents : file_watcher_thread(e[1], e[2])
    \/ \E f \in VolatileFiles : FsWrite(f, "d1")
    \/ \E f \in VolatileFiles : FsRemove(f)
    \/ \E d \in VcsDirs : VcsToggle(d)

\* the handlers interleaved lock by lock, and the indexers at work
NextLocks ==
    \/ \E t \in Tasks, prog \in Programs : lk_begin(t, prog)
    \/ \E t \in Tasks : lk_step(t)
    \/ \E l \in IndexerLocks : IndexerHold(l)
    \/ \E l \in IndexerLocks : IndexerRelease(l)

Next == NextDocs \/ NextFolders \/ NextWatcher \/ NextConc \/ NextFanout \/ NextLocks

Spec == Init /\ [][Next]_vars
SpecDocs == Init /\ [][NextDocs]_vars
SpecFolders == Init /\ [][NextFolders]_vars
SpecWatcher == Init /\ [][NextWatcher]_vars
\* the interleavings are those of a store with both indexers, so that every
\* call of a fan-out shows
InitConc == Init /\ ast_module /\ vec_db
SpecConc == InitConc /\ [][NextConc]_vars
SpecFanout == Init /\ [][NextFanout]_vars
\* one store with both indexers, its handlers interleaved lock by lock
InitLocks ==
    /\ Init
    /\ workspace_folders = <<W1>>
    /\ ast_module /\ vec_db
    /\ vcs_ok = {}
SpecLocks == InitLocks /\ [][NextLocks]_vars
\* the locks of tokio are fair and the work of an indexer ends: a task that
\* can take its step again and again takes it
SpecLocksFair ==
    /\ InitLocks /\ [][NextLocks]_vars
    /\ \A t \in Tasks : SF_vars(lk_step(t))
    /\ \A l \in IndexerLocks : WF_vars(IndexerRelease(l))

\* ============================================================ properties
LastIs(op) == last.op = op
LastEvent(kind) == last.op = "file_watcher_thread" /\ last.kind = kind
known_files == Range(workspace_files)
\* the documents of the enqueue calls of a call sequence
enqueued(calls) ==
    UNION {Range(calls[i].docs) : i \in {j \in 1..Len(calls) : calls[j].op = "enqueue"}}
enqueue_count(calls) == Cardinality({j \in 1..Len(calls) : calls[j].op = "enqueue"})

\* C1. Overlay precedence: a read of a path whose identity has an entry in
\* the overlay map returns the overlay text, whatever the disk holds; the
\* disk content (or the read error) is returned only when there is no entry;
\* and read_file of a DocumentInfo that carries an overlay returns that
\* overlay text.
C1_OverlayPrecedence ==
    /\ LastIs("get_file_text_from_memory_or_disk") =>
         LET file_path == last.paths[1]
             url_mb == pathbuf_to_url(file_path)
         IN  IF url_mb = NoneOpt THEN last.text = "cannot parse filepath"
             ELSE IF url_mb[1] \in DOMAIN document_map
                  THEN last.text = document_map[url_mb[1]].text
                  ELSE last.text = read_to_string(file_path)
    /\ LastIs("on_did_change") =>
         \A d \in enqueued(ast_calls) \cup enqueued(vecdb_calls) : read_file(d) = last.text

\* a read returned the overlay text while the disk holds something else
C1_Witness ==
    /\ LastIs("get_file_text_from_memory_or_disk")
    /\ last.paths = <<F_a>>
    /\ url_of(F_a) \in DOMAIN document_map
    /\ last.text = "t1"
    /\ disk[F_a] = "d2"

\* C2. Full-rebuild atomicity: whatever a reader of the known files sees while
\* a rediscovery replaces them is either the complete contents the
\* rediscovery found when it locked them or the complete contents it stores,
\* never the cleared list in between.
C2_RebuildAtomic ==
    snap.taken => \A w \in snap.replacing : snap.files = w[1] \/ snap.files = w[2]

\* a reader took the known files while a rediscovery was waiting to store a
\* different result, and it saw the complete contents from before
C2_Witness ==
    /\ snap.taken
    /\ snap.in_flight
    /\ snap.files # <<>>
    /\ \E t \in Tasks : /\ pc[t] \in {"ea_dirty", "ea_lock_files"}
                        /\ gcx_w = t
                        /\ uris_of(loc[t].docs) # snap.files
                        /\ loc[t].docs # <<>>

\* C3. Create event: after the watcher handled a Create-of-file event, every
\* path of it that is valid and outside blacklisted directories has its
\* identity in the known-files set, and every indexer that is present got
\* exactly one enqueue call, whose batch contains that identity.
C3_CreateEvent ==
    LastEvent("Create") =>
        \A i \in 1..Len(last.paths) :
            LET path == last.paths[i] IN
            (is_valid_file(path) /\ ~is_this_inside_blacklisted_dir(path)) =>
                /\ url_of(path) \in known_files
                /\ ast_module => /\ enqueue_count(ast_calls) = 1
                                 /\ DocumentInfo(url_of(path), NoneOpt) \in enqueued(ast_calls)
                /\ vec_db => /\ enqueue_count(vecdb_calls) = 1
                             /\ DocumentInfo(url_of(path), NoneOpt) \in enqueued(vecdb_calls)

\* a Create event made a.rs known (it occurs once, so it was unknown before)
\* and both indexers got it
C3_Witness ==
    /\ LastEvent("Create")
    /\ last.paths = <<F_a>>
    /\ workspace_files = <<url_of(F_a)>>
    /\ ast_module /\ vec_db
    /\ Len(ast_calls) = 1 /\ Len(vecdb_calls) = 1

\* some path of the event is outside every blacklisted or leading-dot directory
SomePathMatters(paths) == \E i \in 1..Len(paths) : ~is_this_inside_blacklisted_dir(paths[i])

\* C4. Remove event: the handler of a Remove-of-file event runs a full
\* rediscovery (flag set, known files replaced by the discovery result, the
\* result enqueued to the present indexers) if and only if some path of the
\* event is outside the blacklisted directories; otherwise it calls no
\* indexer and leaves the known files and the flag as they were.
C4_RemoveEvent ==
    [][(last'.op = "file_watcher_thread" /\ last'.kind = "Remove") =>
         IF SomePathMatters(last'.paths)
         THEN /\ cache_dirty'
              /\ workspace_files' = uris_of(_retrieve_files_by_proj_folders(workspace_folders))
              /\ ast_calls' = enqueue_call(ast_module, <<>>,
                                  _retrieve_files_by_proj_folders(workspace_folders), FALSE)
              /\ vecdb_calls' = enqueue_call(vec_db, <<>>,
                                    _retrieve_files_by_proj_folders(workspace_folders), TRUE)
         ELSE /\ UNCHANGED <<workspace_files, cache_dirty>>
              /\ ast_calls' = <<>>
              /\ vecdb_calls' = <<>>
      ]_vars

\* a Remove event with one blacklisted path and one that matters rediscovered
C4_Witness ==
    /\ LastEvent("Remove")
    /\ last.paths = <<F_gen, F_a>>
    /\ workspace_files # <<>>
    /\ cache_dirty
    /\ Len(vecdb_calls) = 1

\* a Remove event with blacklisted paths only was ignored: the known files
\* are stale (a.rs is gone from the disk) and stay so
C4_WitnessIgnored ==
    /\ LastEvent("Remove")
    /\ last.paths = <<F_gen, F_dot>>
    /\ url_of(F_a) \in known_files
    /\ disk[F_a] = NoFile
    /\ ast_calls = <<>> /\ vecdb_calls = <<>>

\* C5. Blacklist exclusion: no path with an ancestor directory whose name is
\* blacklisted or begins with a dot is ever returned by the discovery walk
\* (so none is in the known files a rediscovery stored, nor in a batch it or
\* add_folder enqueued), and the watcher never appends or enqueues one.
C5_BlacklistExclusion ==
    /\ \A u \in known_files : ~is_this_inside_blacklisted_dir(get_path(u))
    /\ \A d \in enqueued(ast_calls) \cup enqueued(vecdb_calls) :
           ~is_this_inside_blacklisted_dir(get_path(d.uri))

\* C6. Scenario B, known-files part: after the editor opened a file and then
\* changed it, the known-files set contains the file's identity.  (A document
\* whose language is the editor's was inserted by on_did_open.)
C6_KnownAfterOpenChange ==
    LastIs("on_did_change") =>
        LET url == url_of(last.paths[1]) IN
        document_map[url].language_id \in Languages => url \in known_files

\* C6 as the code has it: on_did_open and on_did_change leave the known-files
\* set as it was, so the identity is in it exactly when it was there before.
C6_EditorLeavesKnownFiles ==
    [][last'.op \in {"on_did_open", "on_did_change"} => workspace_files' = workspace_files]_vars

\* a file outside every workspace folder was opened and changed: it has an
\* overlay and is not a known file
C6_Witness ==
    /\ LastIs("on_did_change")
    /\ last.paths = <<F_a>>
    /\ workspace_folders = <<>>
    /\ url_of(F_a) \in DOMAIN document_map
    /\ document_map[url_of(F_a)].language_id \in Languages
    /\ document_map[url_of(F_a)].text = "t1"
    /\ url_of(F_a) \notin known_files
    /\ cache_dirty

\* C7. Staleness flag: every step that changes the workspace folder list or
\* the known-files set leaves the staleness flag true.
C7_MutationSetsDirty ==
    [][(workspace_folders' # workspace_folders \/ workspace_files' # workspace_files)
          => cache_dirty']_vars

\* C8. openDocument propagation: after on_did_open of a valid file every
\* indexer that is present got an enqueue call with the document and its
\* overlay text.
C8_OpenPropagates ==
    (LastIs("on_did_open") /\ is_valid_file(last.paths[1])) =>
        LET url == url_of(last.paths[1])
            doc_info == DocumentInfo(url, Some(document_map[url]))
        IN  /\ ast_module => doc_info \in enqueued(ast_calls)
            /\ vec_db => doc_info \in enqueued(vecdb_calls)

\* C8 as the code has it: on_did_open stores the overlay and sets the flag
\* and calls no indexer; the indexers that are present get the document with
\* its overlay text in one enqueue call each from on_did_change, when the
\* file is valid.
C8_ChangePropagates ==
    /\ LastIs("on_did_open") =>
         /\ ast_calls = <<>> /\ vecdb_calls = <<>>
         /\ cache_dirty
         /\ document_map[url_of(last.paths[1])].text = last.text
    /\ (LastIs("on_did_change") /\ is_valid_file(last.paths[1])) =>
         LET url == url_of(last.paths[1])
             doc_info == DocumentInfo(url, Some(document_map[url]))
         IN  /\ document_map[url].text = last.text
             /\ ast_module => ast_calls = <<Call("enqueue", <<doc_info>>, FALSE, <<>>)>>
             /\ vec_db => vecdb_calls = <<Call("enqueue", <<doc_info>>, FALSE, <<>>)>>

\* a valid file was opened with both indexers present, and neither was called
C8_Witness ==
    /\ LastIs("on_did_open")
    /\ is_valid_file(last.paths[1])
    /\ ast_module /\ vec_db
    /\ ast_calls = <<>> /\ vecdb_calls = <<>>

\* a valid file was changed and both indexers got the overlay text
C8_WitnessChange ==
    /\ LastIs("on_did_change")
    /\ is_valid_file(last.paths[1])
    /\ ast_module /\ vec_db
    /\ Len(ast_calls) = 1 /\ Len(vecdb_calls) = 1

\* C9. addFolder populates the store: after add_folder(path) the folder is in
\* the folder list and every identity the discovery walk returns for it is in
\* the known-files set and was enqueued to each indexer that is present.
C9_AddFolderPopulates ==
    LastIs("add_folder") =>
        LET docs == _retrieve_files_by_proj_folders(last.paths) IN
        /\ last.paths[1] \in Range(workspace_folders)
        /\ \A d \in Range(docs) :
              /\ d.uri \in known_files
              /\ ast_module => d \in enqueued(ast_calls)
              /\ vec_db => d \in enqueued(vecdb_calls)

\* C10. removeFolder ordering: after remove_folder(path) each indexer that is
\* present was reset and then got the rediscovery result, the folder is not
\* in the folder list, and the known files are the discovery result over the
\* remaining folders.
C10_RemoveFolderResetsAll ==
    LastIs("remove_folder") =>
        LET docs == _retrieve_files_by_proj_folders(workspace_folders) IN
        /\ ast_module => ast_calls = <<Call("reset", <<>>, FALSE, <<>>),
                                       Call("enqueue", docs, FALSE, <<>>)>>
        /\ vec_db => vecdb_calls = <<Call("reset", <<>>, FALSE, <<>>),
                                     Call("enqueue", docs, TRUE, <<>>)>>
        /\ last.paths[1] \notin Range(workspace_folders)
        /\ workspace_files = uris_of(docs)

\* C10 as the code has it: only the AST indexer is reset, before it gets the
\* rediscovery result; the vector indexer gets the result without a reset.
C10_RemoveFolderResetsAst ==
    LastIs("remove_folder") =>
        LET docs == _retrieve_files_by_proj_folders(workspace_folders) IN
        /\ ast_module => ast_calls = <<Call("reset", <<>>, FALSE, <<>>),
                                       Call("enqueue", docs, FALSE, <<>>)>>
        /\ vec_db => vecdb_calls = <<Call("enqueue", docs, TRUE, <<>>)>>
        /\ last.paths[1] \notin Range(workspace_folders)
        /\ workspace_files = uris_of(docs)

\* /w1 was removed from a workspace of two folders: the AST indexer was reset
\* and both indexers got what is left, the files of /w2
C10_Witness ==
    /\ LastIs("remove_folder")
    /\ last.paths = <<W1>>
    /\ workspace_folders = <<W2>>
    /\ workspace_files = <<url_of(F_c)>>
    /\ Len(ast_calls) = 2 /\ ast_calls[1].op = "reset"
    /\ Len(vecdb_calls) = 1

\* the files beneath a directory that pass the validity predicate and have
\* no directory of a blacklisted name between the directory and themselves
manual_walk_files(d) ==
    {f \in AllFiles : /\ IsPrefix(d, f)
                      /\ is_valid_file(f)
                      /\ \A i \in (Len(d) + 1)..(Len(f) - 1) : f[i] \notin BLACKLISTED_DIRS}

\* C11. Version-control fallback: when the version-control listing of a
\* workspace folder is unavailable, the discovery of that folder returns,
\* by manual expansion, exactly the valid files beneath it that are not under
\* a directory of a blacklisted name; the rediscovery that runs over such
\* folders completes and stores and enqueues these files, with no error.
C11_VcsFallback ==
    /\ \A d \in Folders :
          _ls_files_under_version_control(d) = NoneOpt =>
              Range(_ls_files_under_version_control_recursive(d)) = manual_walk_files(d)
    /\ (LastIs("on_workspaces_init") /\ Range(workspace_folders) \cap vcs_ok = {}) =>
          /\ ~panicked
          /\ known_files = {url_of(f) : f \in UNION {manual_walk_files(d) : d \in Range(workspace_folders)}}
          /\ ast_module => enqueue_count(ast_calls) = 1
          /\ vec_db => enqueue_count(vecdb_calls) = 1

\* the listing of /w1 is unavailable and the rediscovery found a.rs by manual
\* expansion, and neither build/generated.rs nor pic.bin
C11_Witness ==
    /\ LastIs("on_workspaces_init")
    /\ workspace_folders = <<W1>>
    /\ W1 \notin vcs_ok
    /\ url_of(F_a) \in known_files
    /\ url_of(F_gen) \notin known_files
    /\ url_of(F_bin) \notin known_files

EditorOps == {"on_did_open", "on_did_change", "on_did_delete"}

\* C12. Overlay lifecycle: an open or a change leaves an entry for its
\* identity whose text is the text of the event; a delete leaves no entry for
\* its identity; an editor event leaves the entries of every other identity
\* as they were and no other step touches the overlay map, so the entry of an
\* identity is that of its most recent editor event; and the read that
\* follows a delete returns what the disk holds.
C12_OverlayLifecycle ==
    [][/\ last'.op \in {"on_did_open", "on_did_change"} =>
              /\ url_of(last'.paths[1]) \in DOMAIN document_map'
              /\ document_map'[url_of(last'.paths[1])].text = last'.text
       /\ last'.op = "on_did_delete" => url_of(last'.paths[1]) \notin DOMAIN document_map'
       /\ last'.op \in EditorOps =>
              \A u \in AllUrls \ {url_of(last'.paths[1])} :
                  /\ u \in DOMAIN document_map' <=> u \in DOMAIN document_map
                  /\ u \in DOMAIN document_map => document_map'[u] = document_map[u]
       /\ last'.op \notin EditorOps => document_map' = document_map
       /\ (/\ last.op = "on_did_delete"
           /\ last'.op = "get_file_text_from_memory_or_disk"
           /\ last'.paths = last.paths) =>
              last'.text = read_to_string(last.paths[1])
      ]_vars

\* a.rs was opened and closed again while c.rs is still open with the text
\* of its last change
C12_Witness ==
    /\ LastIs("on_did_delete")
    /\ last.paths = <<F_a>>
    /\ url_of(F_a) \notin DOMAIN document_map
    /\ url_of(F_c) \in DOMAIN document_map
    /\ document_map[url_of(F_c)] = Document("rust", "t1")

\* C13. Stale-overlay recovery, as stated: after on_did_change for an identity
\* that is absent from the known-files set the overlay map holds the
\* identity with the reported text and the staleness flag is true.
C13_ChangeUnknownMarksStale ==
    (LastIs("on_did_change") /\ url_of(last.paths[1]) \notin known_files) =>
        /\ ~panicked
        /\ url_of(last.paths[1]) \in DOMAIN document_map
        /\ document_map[url_of(last.paths[1])].text = last.text
        /\ cache_dirty

\* C13 as the code has it: what the store has no record of is decided by the
\* overlay map, not by the known-files set.  on_did_change for an identity
\* without an entry inserts it with the language "unknown" and the reported
\* text and sets the flag; for an identity with an entry it replaces the
\* text and leaves the flag as it was; it never fails.
C13_ChangeUnrecordedMarksStale ==
    [][last'.op = "on_did_change" =>
          LET u == url_of(last'.paths[1]) IN
          /\ ~panicked'
          /\ u \in DOMAIN document_map'
          /\ IF u \notin DOMAIN document_map
             THEN document_map'[u] = Document("unknown", last'.text) /\ cache_dirty'
             ELSE /\ document_map'[u] = [document_map[u] EXCEPT !.text = last'.text]
                  /\ cache_dirty' = cache_dirty
      ]_vars

\* a.rs is a known file that was never opened; a change for it was reported
\* after the caches had been rebuilt, it was inserted and the flag is set
C13_Witness ==
    /\ LastIs("on_did_change")
    /\ last.paths = <<F_a>>
    /\ url_of(F_a) \in known_files
    /\ document_map[url_of(F_a)] = Document("unknown", "t1")
    /\ url_of(F_c) \notin DOMAIN document_map
    /\ cache_dirty

\* the handlers that propagate a batch to the indexers
PropagationOps == {"on_workspaces_init", "on_did_change", "on_did_delete", "add_folder",
                   "file_watcher_thread"}

\* the batch the handler that ran last had to propagate, computed from the
\* store and the filesystem it left, and not from the indexer slots
fanout_batch ==
    CASE last.op \in {"on_workspaces_init"} -> _retrieve_files_by_proj_folders(workspace_folders)
      [] last.op = "add_folder" -> _retrieve_files_by_proj_folders(last.paths)
      [] last.op = "on_did_change" ->
             IF is_valid_file(last.paths[1])
             THEN <<DocumentInfo(url_of(last.paths[1]),
                                 Some(document_map[url_of(last.paths[1])]))>>
             ELSE <<>>
      [] last.op = "on_did_delete" -> <<DocumentInfo(url_of(last.paths[1]), NoneOpt)>>
      [] last.op = "file_watcher_thread" ->
             IF last.kind \in {"Create", "Modify"} THEN classify_paths(last.paths)
             ELSE IF last.kind = "Remove" /\ ~never_mind(last.paths)
             THEN _retrieve_files_by_proj_folders(workspace_folders)
             ELSE <<>>
      [] OTHER -> <<>>

\* the handler that ran last made no call at all
fanout_none ==
    \/ last.op = "on_did_change" /\ fanout_batch = <<>>
    \/ /\ last.op = "file_watcher_thread"
       /\ \/ last.kind \in {"Create", "Modify"} /\ fanout_batch = <<>>
          \/ last.kind = "Remove" /\ never_mind(last.paths)
          \/ last.kind \notin {"Create", "Modify", "Remove"}

\* the one call an indexer that is present got: its batch
call_batch(calls) ==
    IF calls[1].op = "remove_file" /\ calls[1].docs = <<>>
    THEN <<DocumentInfo(<<"file://">> \o calls[1].path, NoneOpt)>>
    ELSE calls[1].docs

\* C14. Indexer absence is a no-op: after every propagation no handler has
\* failed, an indexer whose slot is empty got no call and its slot is still
\* empty, and an indexer that is present got exactly one call with the batch
\* of the handler, whether or not the other indexer is present; the store is
\* what the handler leaves when both are present (the known files of a
\* rediscovery are its batch).
C14_AbsentIndexerSkipped ==
    last.op \in PropagationOps =>
        /\ ~panicked
        /\ ~ast_module => ast_calls = <<>>
        /\ ~vec_db => vecdb_calls = <<>>
        /\ (ast_module /\ ~fanout_none) =>
               Len(ast_calls) = 1 /\ call_batch(ast_calls) = fanout_batch
        /\ (vec_db /\ ~fanout_none) =>
               Len(vecdb_calls) = 1 /\ call_batch(vecdb_calls) = fanout_batch
        /\ fanout_none => ast_calls = <<>> /\ vecdb_calls = <<>>
        /\ (last.op = "on_workspaces_init"
              \/ (LastEvent("Remove") /\ ~never_mind(last.paths))) =>
               workspace_files = uris_of(fanout_batch)

\* a change of a.rs reached the vector indexer although there is no AST
\* indexer
C14_Witness ==
    /\ LastIs("on_did_change")
    /\ ~ast_module /\ vec_db
    /\ ast_calls = <<>>
    /\ Len(vecdb_calls) = 1
    /\ vecdb_calls[1].docs = <<DocumentInfo(url_of(F_a), Some(Document("unknown", "t1")))>>

\* a Create event reached the AST indexer although there is no vector indexer
C14_WitnessCreate ==
    /\ LastEvent("Create")
    /\ ast_module /\ ~vec_db
    /\ vecdb_calls = <<>>
    /\ Len(ast_calls) = 1
    /\ ast_calls[1].docs = <<DocumentInfo(url_of(F_a), NoneOpt)>>

\* C15. Watch-subscription failure is tolerated: init_watcher and add_folder
\* never crash, whether or not the watch could be attached; the folders of
\* the list stay in it, the folder add_folder was given is in it, and the
\* known files are as they were.
C15_WatchFailureTolerated ==
    [][last'.op \in {"init_watcher", "add_folder"} =>
          /\ ~panicked'
          /\ Range(workspace_folders) \subseteq Range(workspace_folders')
          /\ last'.op = "add_folder" => last'.paths[1] \in Range(workspace_folders')
          /\ workspace_files' = workspace_files
      ]_vars

\* the identities of the documents a task holds
batch_uris(t) == Range(uris_of(loc[t].docs))

\* C16. Propagation ordering, as stated: when a handler that has mutated the
\* known files for its batch (the append of a Create event, the replacement
\* of a full rebuild) is about to call an indexer, or is between its two
\* calls, the known-files set, read while nobody holds its mutex, holds every
\* identity of the batch and, for a full rebuild, the staleness flag is set.
C16_MutationBeforeEnqueue ==
    files_mx = NoTask =>
        \A t \in Tasks :
            /\ (pc[t] \in {"ef_ast", "ef_vecdb"} /\ loc[t].kind = "Create") =>
                   batch_uris(t) \subseteq known_files
            /\ pc[t] \in {"ea_ast", "ea_vecdb"} =>
                   batch_uris(t) \subseteq known_files /\ cache_dirty

\* C16 as the code has it: a handler calls an indexer for the batch of a
\* Create event only after its own append, and for the batch of a full
\* rebuild only after it has set the staleness flag and replaced the known
\* files; the step that mutates the known files leaves every identity of
\* the batch in them.  (Another handler's rebuild may have replaced the set
\* again by the time of the call.)
C16_OwnMutationBeforeEnqueue ==
    [][\A t \in Tasks :
          /\ (pc[t] \in {"ef_ast", "ef_vecdb"} /\ pc'[t] # pc[t] /\ loc[t].kind = "Create") =>
                 loc[t].mutated
          /\ (pc[t] \in {"ea_ast", "ea_vecdb"} /\ pc'[t] # pc[t]) =>
                 loc[t].mutated /\ loc[t].flagged
          /\ (~loc[t].mutated /\ loc'[t].mutated) => batch_uris(t) \subseteq Range(workspace_files')
          /\ (~loc[t].flagged /\ loc'[t].flagged) => cache_dirty'
      ]_vars

\* the watcher has appended a.rs of a Create event and is between its two
\* indexer calls while a rebuild that did not find a.rs has replaced the set
C16_Witness ==
    /\ pc["watcher"] = "ef_vecdb"
    /\ loc["watcher"].kind = "Create"
    /\ loc["watcher"].mutated
    /\ ast_module /\ Len(ast_calls) >= 1
    /\ url_of(F_a) \in batch_uris("watcher")
    /\ url_of(F_a) \notin known_files
    /\ files_mx = NoTask

acquires(t) == running(t) /\ instr(t)[1] \in {"read", "write", "lock"}
\* the indexer slots whose call a task has still to make after the
\* instruction it is at
calls_ahead(t) ==
    {loc[t].prog[i][2] : i \in {j \in (loc[t].ip + 1)..Len(loc[t].prog) :
                                    loc[t].prog[j][1] = "call"}}

\* C17. Indexer independence: a handler never holds the lock of one indexer
\* slot while it holds or awaits the lock of the other, and it never awaits
\* the lock of an indexer that is held while the other indexer, which is
\* free, has still to get the batch.
C17_IndexerIndependence ==
    \A t \in Tasks :
        /\ Cardinality(held(t) \cap IndexerLocks) <= 1
        /\ (acquires(t) /\ instr(t)[2] \in IndexerLocks) => held(t) \cap IndexerLocks = {}
        /\ (waiting(t) /\ instr(t)[2] \in IndexerLocks) =>
               \A o \in calls_ahead(t) \ {instr(t)[2]} : locks[o] # {}

\* C18. No store lock across indexer calls: a handler that is at the call of
\* an indexer holds neither the lock of the context nor the lock of a field
\* of the store.
C18_NoStoreLockAcrossCalls ==
    \A t \in Tasks :
        (running(t) /\ instr(t)[1] = "call") =>
            held(t) \cap ({OuterLock} \cup InnerLocks) = {}

\* a handler is inside the call of the vector indexer while the other task
\* holds the write lock of the context
C18_Witness ==
    /\ running("lsp") /\ instr("lsp") = <<"call", "vec_db">>
    /\ held("lsp") = {"vec_db"}
    /\ <<"watcher", "w">> \in locks[OuterLock]

\* C19. Deadlock freedom: whenever handlers are running one of them can take
\* its step or awaits only an indexer that is at work, and with fair locks
\* and indexer work that ends every handler that was started completes.
C19_DeadlockFree ==
    /\ []((\E t \in Tasks : running(t)) =>
             \E t \in Tasks : running(t) /\ (~waiting(t) \/ instr(t)[2] \in held(IndexerWork)))
    /\ \A t \in Tasks : running(t) ~> (pc[t] = "idle")

\* a handler holds the write lock of the context and the other awaits it
C19_Witness ==
    /\ <<"lsp", "w">> \in locks[OuterLock]
    /\ waiting("watcher")
    /\ instr("watcher")[2] = OuterLock

\* C20. Lock acquisition discipline, as stated: a handler begins by taking
\* the lock of the context and, while it holds it, neither holds nor asks
\* for the lock of a field of the store.
C20_OuterReleasedFirst ==
    \A t \in Tasks :
        running(t) =>
            /\ loc[t].ip = 1 => acquires(t) /\ instr(t)[2] = OuterLock
            /\ OuterLock \in held(t) =>
                   /\ held(t) \cap InnerLocks = {}
                   /\ ~(acquires(t) /\ instr(t)[2] \in InnerLocks)

\* C20 as the code has it: a handler begins by taking the lock of the
\* context, asks for it only while it holds no lock at all, asks for the
\* lock of a field only while it holds nothing but the lock of the context,
\* holds at most one field lock at a time, and asks for the lock of an
\* indexer slot only while it holds no lock.
C20_OuterBeforeInner ==
    \A t \in Tasks :
        running(t) =>
            /\ loc[t].ip = 1 => acquires(t) /\ instr(t)[2] = OuterLock
            /\ (acquires(t) /\ instr(t)[2] = OuterLock) => held(t) = {}
            /\ (acquires(t) /\ instr(t)[2] \in InnerLocks) => held(t) \subseteq {OuterLock}
            /\ Cardinality(held(t) \cap InnerLocks) <= 1
            /\ (acquires(t) /\ instr(t)[2] \in IndexerLocks) => held(t) = {}

\* on_did_delete holds the read lock of the context together with the write
\* lock of the overlay map
C20_Witness ==
    /\ running("lsp")
    /\ loc["lsp"].prog = prog_on_did_delete
    /\ held("lsp") = {OuterLock, "document_map"}

\* the tasks are all idle
quiescent == \A t \in Tasks : pc[t] = "idle"
\* what a discovery walk of the workspace folders returns now
discovered_now == uris_of(_retrieve_files_by_proj_folders(workspace_folders))

\* C21. Racing rediscoveries are safe: once a rediscovery whose walk saw the
\* filesystem as it is now has stored its result, and no Create event has
\* appended since, and every handler has completed, the known files are the
\* complete result of one walk of the filesystem as it is now.
C21_RacingRediscoveries ==
    (LastIs("enqueue_all_files_from_workspace_folders") /\ quiescent) =>
        workspace_files = discovered_now

\* C22. No lost Create: after a Create event has appended the identities of
\* its valid files, and while these files have not changed since, the known
\* files hold them, whatever rediscovery has committed in the meantime.
C22_NoLostCreate ==
    (LastIs("fw_append") /\ last.kind = "Create" /\ files_mx = NoTask) =>
        \A d \in Range(classify_paths(last.paths)) : d.uri \in known_files

\* C23. Known files form a set: the known-files collection holds every
\* identity at most once.
C23_KnownFilesAreSet ==
    Cardinality(known_files) = Len(workspace_files)

====
